---------------------------- MODULE Spec2Model ----------------------------
(***************************************************************************)
(* State-machine model of src/app.py: the WhatsApp webhook -> Supabase     *)
(* relay.  The backing store (tables leads, messages, system_logs,         *)
(* pipeline_stages) is the only shared state; every request handler runs   *)
(* as a process whose steps are the individual store / network calls, so   *)
(* that concurrent handlers interleave between any two external calls.     *)
(* Computation between two external calls is local to the handler and is   *)
(* part of the step of the call that precedes it.  A call of               *)
(* log_system_event is performed in the step whose failure it reports:     *)
(* system_logs is never read by the program.                               *)
(***************************************************************************)
EXTENDS Integers, Sequences, FiniteSets, TLC

(* ------------------------------ bounds --------------------------------- *)

\* Total number of requests (webhook POSTs, /send_message POSTs, direct
\* calls) started in one behaviour.
MaxReqs == 2

\* Handler threads that may run concurrently.
Procs == {"t1", "t2"}

(* --------------------------- Python values ----------------------------- *)

\* Python None where a string is expected (phone, text, column value NULL).
None == "None"

\* Python None where an identifier is expected (lead_id, stage id).
NoId == -1

\* Python truthiness of an optional string: None and "" are falsy.
TruthyStr(s) == s # None /\ s # ""

\* Python truthiness of an optional integer identifier: None and 0 are falsy.
TruthyId(i) == i # NoId /\ i # 0

\* The result of get_or_create_lead when it returns None.
NoLead ==
    [id |-> NoId, name |-> None, phone |-> None, stage_id |-> NoId,
     unread_count |-> 0, custom_fields |-> <<>>,
     last_message_at |-> 0, last_message_content |-> None]

(* ------------------------------ inputs --------------------------------- *)

\* A 'messages' element of the Meta envelope.
TextMsg(from, body) == [type |-> "text", from |-> from, text |-> [body |-> body]]

\* The 'value' object: with a contact profile, with a contact without
\* profile, without 'contacts'.
ValueNamed(msg, nm) ==
    [messages |-> <<msg>>, contacts |-> << [profile |-> [name |-> nm]] >>]
ValueAnon(msg) == [messages |-> <<msg>>]

Envelope(value) ==
    [object |-> "whatsapp_business_account",
     entry |-> << [changes |-> << [value |-> value] >>] >>]

\* Well-formed text events.
TextPayloads ==
    {Envelope(ValueNamed(TextMsg("+1", "oi"), "Ana")),
     Envelope(ValueNamed(TextMsg("+1", "ola"), "Bob")),
     Envelope(ValueAnon(TextMsg("+2", "oi")))}

\* Events of another type, status callbacks, and malformed envelopes.
OtherPayloads ==
    {Envelope(ValueAnon([type |-> "image", from |-> "+1"])),
     Envelope([statuses |-> <<"delivered">>]),
     [entry |-> <<>>],
     [object |-> "whatsapp_business_account", entry |-> <<>>],
     Envelope(ValueAnon([from |-> "+1", text |-> [body |-> "oi"]])),
     Envelope(ValueAnon([type |-> "text", text |-> [body |-> "oi"]])),
     Envelope(ValueAnon([type |-> "text", from |-> "+1"])),
     Envelope([messages |-> <<TextMsg("+1", "oi")>>, contacts |-> <<>>]),
     Envelope([messages |-> <<>>])}

Payloads == TextPayloads \cup OtherPayloads

\* JSON bodies of POST /send_message after data.get(): a missing key is
\* None; lead_id is absent, 0, or the id of the first lead row.
SendBodies ==
    {[phone |-> "+1", text |-> "resp", lead_id |-> i] : i \in {NoId, 0, 1}}
    \cup {[phone |-> None, text |-> "resp", lead_id |-> 1],
          [phone |-> "+1", text |-> "", lead_id |-> 1]}

\* The pipeline_stages rows the store may hold; the program only reads them.
AllStages == {[id |-> 1, position |-> 2], [id |-> 2, position |-> 1]}

(* ------------------------------- state --------------------------------- *)

VARIABLES
    supabase,         \* the store client is configured (line 21)
    META_TOKEN,       \* the credential is set (line 15)
    META_PHONE_ID,    \* the credential is set (line 16)
    pipeline_stages,  \* table pipeline_stages: set of rows
    leads,            \* table leads: rows in insertion order, id = index
    messages,         \* table messages: rows in insertion order
    system_logs,      \* table system_logs: rows in insertion order
    clock,            \* the store's now(): number of lead updates so far
    nreq,             \* requests started so far
    pc,               \* per thread: the external call it is about to make
    loc               \* per thread: the handler's local variables and the
                      \* record of what the current request did

vars == <<supabase, META_TOKEN, META_PHONE_ID, pipeline_stages, leads,
          messages, system_logs, clock, nreq, pc, loc>>

config == <<supabase, META_TOKEN, META_PHONE_ID, pipeline_stages>>

\* Locals of an idle thread.  tr is the list of external effects of the
\* current request, in order: <<"net", "ok"|"fail">>, <<"log", source>>,
\* <<"logfail", source>>, <<"logskip", source>>, <<"raise", call>>,
\* <<"select", "hit"|"miss">>, <<"insert", table>>, <<"update", "leads">>,
\* <<"call", function>>, <<"return", function>>.
IdleLoc ==
    [kind |-> "none", parsed |-> "none", phone |-> None, name |-> None,
     text |-> None, lead_id |-> NoId, direction |-> "none",
     first_stage_id |-> NoId, lead |-> NoLead, dispatch |-> "unset",
     status |-> 0, tr |-> <<>>]

Init ==
    /\ supabase \in BOOLEAN
    /\ META_TOKEN \in BOOLEAN
    /\ META_PHONE_ID \in BOOLEAN
    /\ pipeline_stages \in {{}, AllStages}
    /\ leads = <<>>
    /\ messages = <<>>
    /\ system_logs = <<>>
    /\ clock = 0
    /\ nreq = 0
    /\ pc = [p \in Procs |-> "idle"]
    /\ loc = [p \in Procs |-> IdleLoc]

(* ------------------------------ helpers -------------------------------- *)

\* Number of occurrences of event e in trace t.
Count(t, e) == Cardinality({i \in 1..Len(t) : t[i] = e})

\* Number of events of kind k in trace t.
CountKind(t, k) == Cardinality({i \in 1..Len(t) : t[i][1] = k})


\* Outcome of reading the envelope that needs no store: nothing to do, or an
\* exception raised by a subscript (KeyError, IndexError).
Ignored == [kind |-> "ignore", phone |-> None, body |-> None, name |-> None]
Raised == [kind |-> "error", phone |-> None, body |-> None, name |-> None]

\* contacts[0].get('profile', {}).get('name', 'Cliente')
ProfileName(contact) ==
    IF "profile" \in DOMAIN contact
    THEN IF "name" \in DOMAIN contact.profile
         THEN contact.profile.name ELSE "Cliente"
    ELSE "Cliente"

\* The text branch of the envelope navigation: message['from'],
\* message['text']['body'], value.get('contacts', [{}])[0].
ParseText(value, message) ==
    IF "from" \notin DOMAIN message THEN Raised
    ELSE IF "text" \notin DOMAIN message THEN Raised
    ELSE IF "body" \notin DOMAIN message.text THEN Raised
    ELSE LET contacts == IF "contacts" \in DOMAIN value
                         THEN value.contacts ELSE << <<>> >>
         IN  IF Len(contacts) = 0 THEN Raised
             ELSE [kind |-> "text", phone |-> message.from,
                   body |-> message.text.body,
                   name |-> ProfileName(contacts[1])]

\* The navigation without the test of line 159: every message is read as
\* a text message.
ParseValue_any_type(value) ==
    IF "messages" \notin DOMAIN value THEN Ignored
    ELSE IF Len(value.messages) = 0 THEN Raised
    ELSE LET message == value.messages[1]
         IN  IF "type" \notin DOMAIN message THEN Raised
             ELSE ParseText(value, message)

\* value = changes['value'] onwards.
ParseValue(value) ==
    IF "messages" \notin DOMAIN value THEN Ignored
    ELSE IF Len(value.messages) = 0 THEN Raised
    ELSE LET message == value.messages[1]
         IN  IF "type" \notin DOMAIN message THEN Raised
             ELSE IF message.type # "text" THEN Ignored
             ELSE ParseText(value, message)

\* The navigation of the POSTed envelope by the webhook handler.
ParseEnvelope(data) ==
    IF ~("object" \in DOMAIN data /\ "entry" \in DOMAIN data) THEN Ignored
    ELSE IF Len(data.entry) = 0 THEN Raised
    ELSE LET entry == data.entry[1]
         IN  IF "changes" \notin DOMAIN entry THEN Raised
             ELSE IF Len(entry.changes) = 0 THEN Raised
             ELSE IF "value" \notin DOMAIN entry.changes[1] THEN Raised
             ELSE ParseValue(entry.changes[1].value)

(* --------------------------- the log store ----------------------------- *)

\* The logger with the guard of line 25 inverted (if supabase: return).
log_system_event_off(ok, level, source, message) == system_logs

\* log_system_event: the new contents of system_logs.  ok: the insert did
\* not raise; a raised insert is swallowed (line 33).
log_system_event(ok, level, source, message) ==
    IF ~supabase THEN system_logs
    ELSE IF ok
         THEN Append(system_logs,
                     [level |-> level, source |-> source, message |-> message])
         ELSE system_logs

\* What a call of log_system_event did, as an entry of the request's trace.
LogEv(ok, source) ==
    IF ~supabase THEN <<"logskip", source>>
    ELSE IF ok THEN <<"log", source>> ELSE <<"logfail", source>>

\* l with the effect e appended to its trace.
Ev(l, e) == [l EXCEPT !.tr = Append(@, e)]

(* ------------------------ local continuations -------------------------- *)

\* The webhook handler without the except clause of line 172: an exception
\* of the envelope navigation reaches the framework, which answers 500.
Done_unhandled(l) ==
    [pc |-> "done",
     loc |-> [l EXCEPT !.status =
                 IF l.kind = "webhook" /\ Count(l.tr, <<"raise", "webhook">>) > 0
                 THEN 500
                 ELSE IF l.kind \in {"webhook", "send"} THEN 200 ELSE 0]]

\* The handler answers: jsonify(...), 200 (lines 176 and 193); a direct call
\* of a function returns to its caller.
Done(l) ==
    [pc |-> "done",
     loc |-> [l EXCEPT !.status = IF l.kind \in {"webhook", "send"}
                                   THEN 200 ELSE 0]]

\* The entry without the test of lead_id (if not supabase: return).
salvar_mensagem_enter_unguarded(l, lead_id, content, direction) ==
    LET l1 == Ev([l EXCEPT !.lead_id = lead_id, !.text = content,
                           !.direction = direction],
                 <<"call", "salvar_mensagem">>)
    IN  IF ~supabase
        THEN Done(Ev(l1, <<"return", "salvar_mensagem">>))
        ELSE [pc |-> "s_insert", loc |-> l1]

\* Entry of salvar_mensagem (line 104): return at once without a store or
\* without a truthy lead_id, else go on to the insert of line 114.
salvar_mensagem_enter(l, lead_id, content, direction) ==
    LET l1 == Ev([l EXCEPT !.lead_id = lead_id, !.text = content,
                           !.direction = direction],
                 <<"call", "salvar_mensagem">>)
    IN  IF ~supabase \/ ~TruthyId(lead_id)
        THEN Done(Ev(l1, <<"return", "salvar_mensagem">>))
        ELSE [pc |-> "s_insert", loc |-> l1]

\* webhook, lines 168-170: get_or_create_lead returned lead.
webhook_after_lead(l, lead) ==
    LET l1 == Ev([l EXCEPT !.lead = lead], <<"return", "get_or_create_lead">>)
    IN  IF lead # NoLead
        THEN salvar_mensagem_enter(l1, lead.id, l.text, "inbound")
        ELSE Done(l1)

\* The endpoint recording the message only when the HTTP call succeeded.
api_send_after_dispatch_if_sent(l) ==
    LET l1 == Ev([l EXCEPT !.dispatch = None],
                 <<"return", "enviar_mensagem_whatsapp">>)
    IN  IF TruthyId(l.lead_id) /\ Count(l.tr, <<"net", "ok">>) = 1
        THEN salvar_mensagem_enter(l1, l.lead_id, l.text, "outbound")
        ELSE Done(l1)

\* log_system_event without its try/except: a failed log insert raises
\* through enviar_mensagem_whatsapp into the endpoint, which answers 500
\* and records nothing.
api_send_after_dispatch_log_raises(l) ==
    LET l1 == Ev([l EXCEPT !.dispatch = None],
                 <<"return", "enviar_mensagem_whatsapp">>)
    IN  IF Count(l.tr, <<"logfail", "API_SEND">>) > 0
        THEN [pc |-> "done", loc |-> [l EXCEPT !.status = 500]]
        ELSE IF TruthyId(l.lead_id)
             THEN salvar_mensagem_enter(l1, l.lead_id, l.text, "outbound")
             ELSE Done(l1)

\* api_send_message, lines 188-193: enviar_mensagem_whatsapp returned; it
\* returns None on each of its paths (the bare return of line 42, the end
\* of the function after line 59 or line 63) and the endpoint drops the
\* value.
api_send_after_dispatch(l) ==
    LET l1 == Ev([l EXCEPT !.dispatch = None],
                 <<"return", "enviar_mensagem_whatsapp">>)
    IN  IF TruthyId(l.lead_id)
        THEN salvar_mensagem_enter(l1, l.lead_id, l.text, "outbound")
        ELSE Done(l1)

\* The test with "and" for "or".
CredentialsBothMissing == ~META_TOKEN /\ ~META_PHONE_ID

\* Line 38: not META_TOKEN or not META_PHONE_ID.
CredentialsMissing == ~META_TOKEN \/ ~META_PHONE_ID

\* Thread p moves to r.pc with locals r.loc.
Goto(p, r) ==
    /\ pc' = [pc EXCEPT ![p] = r.pc]
    /\ loc' = [loc EXCEPT ![p] = r.loc]

(* ------------------------------ the store ------------------------------ *)

\* Line 71: the rows of leads whose phone equals the argument.
LeadsByPhone(phone) == {i \in 1..Len(leads) : leads[i].phone = phone}

\* The ids returned with the order reversed (order('position', desc=True)).
FirstStageIdsDesc(stages) ==
    {s.id : s \in {s \in stages : \A t \in stages : s.position >= t.position}}

\* Line 76: select("id").order('position').limit(1): the ids the store may
\* return first (one id when positions are distinct).
FirstStageIds(stages) ==
    {s.id : s \in {s \in stages : \A t \in stages : s.position <= t.position}}

\* The hit path storing the name of the event on the row found (an upsert).
HitRenames(rows, i, name) == [rows EXCEPT ![i].name = name]

\* Lines 72-73: the table leads after a lookup that found row i; the hit
\* path returns the row and writes nothing.
HitWrites(rows, i, name) == rows

\* The summary refreshed for either direction.
UpdatesSummaryAlways(direction) == TRUE

\* Line 117: only an inbound message refreshes the lead's summary.
UpdatesSummary(direction) == direction = "inbound"

\* The insert payload with name and phone exchanged.
new_lead_data_swapped(name, phone, first_stage_id) ==
    [name |-> phone, phone |-> name, stage_id |-> first_stage_id,
     unread_count |-> 1, custom_fields |-> <<>>]

\* Lines 86-92.
new_lead_data(name, phone, first_stage_id) ==
    [name |-> name, phone |-> phone, stage_id |-> first_stage_id,
     unread_count |-> 1, custom_fields |-> <<>>]

\* The row the store makes of an inserted lead: a fresh id, and NULL in the
\* columns the insert does not name.
LeadRow(data, id) ==
    [id |-> id, name |-> data.name, phone |-> data.phone,
     stage_id |-> data.stage_id, unread_count |-> data.unread_count,
     custom_fields |-> data.custom_fields,
     last_message_at |-> 0, last_message_content |-> None]

\* The payload with the two status values exchanged.
msg_data_status_swapped(lead_id, content, direction) ==
    [lead_id |-> lead_id, content |-> content, direction |-> direction,
     type |-> "text",
     status |-> IF direction = "inbound" THEN "sent" ELSE "read"]

\* Lines 107-113.
msg_data(lead_id, content, direction) ==
    [lead_id |-> lead_id, content |-> content, direction |-> direction,
     type |-> "text",
     status |-> IF direction = "inbound" THEN "read" ELSE "sent"]

\* The update refreshing the timestamp only.
UpdateLeadTimeOnly(rows, lead_id, content, now) ==
    [i \in 1..Len(rows) |->
        IF rows[i].id = lead_id
        THEN [rows[i] EXCEPT !.last_message_at = now]
        ELSE rows[i]]

\* The update without its filter .eq('id', lead_id): every row is written.
UpdateLead_all_rows(rows, lead_id, content, now) ==
    [i \in 1..Len(rows) |->
        [rows[i] EXCEPT !.last_message_at = now,
                        !.last_message_content = content]]

\* Lines 118-121: update(...).eq('id', lead_id) at store time now.
UpdateLead(rows, lead_id, content, now) ==
    [i \in 1..Len(rows) |->
        IF rows[i].id = lead_id
        THEN [rows[i] EXCEPT !.last_message_at = now,
                             !.last_message_content = content]
        ELSE rows[i]]

(* ------------------------------ actions -------------------------------- *)

\* No other thread has an answer pending its return to idle.
Quiet(p) == \A q \in Procs \ {p} : pc[q] # "done"

\* POST /webhook with envelope data (lines 148-176), up to the first store
\* call of get_or_create_lead.
webhook(p, data) ==
    /\ pc[p] = "idle"
    /\ Quiet(p)
    /\ nreq < MaxReqs
    /\ nreq' = nreq + 1
    /\ LET ev == ParseEnvelope(data)
           l0 == [IdleLoc EXCEPT !.kind = "webhook", !.parsed = ev.kind,
                                 !.phone = ev.phone, !.name = ev.name,
                                 !.text = ev.body]
       IN  \/ /\ ev.kind = "error"
              /\ \E ok \in BOOLEAN :
                    /\ system_logs' = log_system_event(ok, "ERROR",
                                          "WEBHOOK_META", "Falha no processamento")
                    /\ Goto(p, Done(Ev(Ev(l0, <<"raise", "webhook">>),
                                       LogEv(ok, "WEBHOOK_META"))))
           \/ /\ ev.kind = "ignore"
              /\ Goto(p, Done(l0))
              /\ UNCHANGED system_logs
           \/ /\ ev.kind = "text"
              /\ IF supabase
                 THEN Goto(p, [pc |-> "g_select",
                               loc |-> Ev(l0, <<"call", "get_or_create_lead">>)])
                 ELSE Goto(p, Done(l0))
              /\ UNCHANGED system_logs
    /\ UNCHANGED <<config, leads, messages, clock>>

\* get_or_create_lead, line 71: the lookup by phone.
get_or_create_lead_select(p) ==
    /\ pc[p] = "g_select"
    /\ Quiet(p)
    /\ \/ \E ok \in BOOLEAN :
            /\ system_logs' = log_system_event(ok, "ERROR", "SYSTEM",
                                               "Falha ao criar/buscar lead")
            /\ Goto(p, webhook_after_lead(
                          Ev(Ev(loc[p], <<"raise", "select_leads">>),
                             LogEv(ok, "SYSTEM")), NoLead))
            /\ UNCHANGED leads
       \/ \E i \in LeadsByPhone(loc[p].phone) :
            /\ leads' = HitWrites(leads, i, loc[p].name)
            /\ Goto(p, webhook_after_lead(Ev(loc[p], <<"select", "hit">>),
                                          leads[i]))
            /\ UNCHANGED system_logs
       \/ /\ LeadsByPhone(loc[p].phone) = {}
          /\ Goto(p, [pc |-> "g_stage",
                      loc |-> Ev(loc[p], <<"select", "miss">>)])
          /\ UNCHANGED <<system_logs, leads>>
    /\ UNCHANGED <<config, messages, clock, nreq>>

\* get_or_create_lead, lines 76-83: the first stage of the funnel.
get_or_create_lead_stage(p) ==
    /\ pc[p] = "g_stage"
    /\ Quiet(p)
    /\ \/ \E ok \in BOOLEAN :
            /\ system_logs' = log_system_event(ok, "ERROR", "SYSTEM",
                                               "Falha ao criar/buscar lead")
            /\ Goto(p, webhook_after_lead(
                          Ev(Ev(loc[p], <<"raise", "select_stages">>),
                             LogEv(ok, "SYSTEM")), NoLead))
       \/ /\ \A id \in FirstStageIds(pipeline_stages) : ~TruthyId(id)
          /\ \E ok \in BOOLEAN :
                /\ system_logs' = log_system_event(ok, "ERROR", "SYSTEM",
                                                   "Nenhuma etapa de funil")
                /\ Goto(p, webhook_after_lead(
                              Ev(Ev(loc[p], <<"select", "nostage">>),
                                 LogEv(ok, "SYSTEM")), NoLead))
       \/ \E id \in FirstStageIds(pipeline_stages) :
            /\ TruthyId(id)
            /\ Goto(p, [pc |-> "g_insert",
                        loc |-> [loc[p] EXCEPT !.first_stage_id = id]])
            /\ UNCHANGED system_logs
    /\ UNCHANGED <<config, leads, messages, clock, nreq>>

\* get_or_create_lead, lines 86-95: the insert of the new lead.
get_or_create_lead_insert(p) ==
    /\ pc[p] = "g_insert"
    /\ Quiet(p)
    /\ \/ \E ok \in BOOLEAN :
            /\ system_logs' = log_system_event(ok, "ERROR", "SYSTEM",
                                               "Falha ao criar/buscar lead")
            /\ Goto(p, webhook_after_lead(
                          Ev(Ev(loc[p], <<"raise", "insert_leads">>),
                             LogEv(ok, "SYSTEM")), NoLead))
            /\ UNCHANGED leads
       \/ LET row == LeadRow(new_lead_data(loc[p].name, loc[p].phone,
                                           loc[p].first_stage_id),
                             Len(leads) + 1)
          IN  /\ leads' = Append(leads, row)
              /\ Goto(p, webhook_after_lead(Ev(loc[p], <<"insert", "leads">>),
                                            row))
              /\ UNCHANGED system_logs
    /\ UNCHANGED <<config, messages, clock, nreq>>

\* salvar_mensagem, lines 107-114: the insert of the message.
salvar_mensagem_insert(p) ==
    /\ pc[p] = "s_insert"
    /\ Quiet(p)
    /\ \/ \E ok \in BOOLEAN :
            /\ system_logs' = log_system_event(ok, "ERROR", "SYSTEM",
                                               "Falha ao salvar mensagem")
            /\ Goto(p, Done(Ev(Ev(Ev(loc[p], <<"raise", "insert_messages">>),
                                  LogEv(ok, "SYSTEM")),
                               <<"return", "salvar_mensagem">>)))
            /\ UNCHANGED messages
       \/ /\ messages' = Append(messages, msg_data(loc[p].lead_id, loc[p].text,
                                                   loc[p].direction))
          /\ IF UpdatesSummary(loc[p].direction)
             THEN Goto(p, [pc |-> "s_update",
                           loc |-> Ev(loc[p], <<"insert", "messages">>)])
             ELSE Goto(p, Done(Ev(Ev(loc[p], <<"insert", "messages">>),
                                  <<"return", "salvar_mensagem">>)))
          /\ UNCHANGED system_logs
    /\ UNCHANGED <<config, leads, clock, nreq>>

\* The recorder undoing its insert when the update of the lead raises (the
\* two writes as one transaction).
salvar_mensagem_update_rollback(p) ==
    /\ pc[p] = "s_update"
    /\ Quiet(p)
    /\ \/ \E ok \in BOOLEAN :
            /\ system_logs' = log_system_event(ok, "ERROR", "SYSTEM",
                                               "Falha ao salvar mensagem")
            /\ Goto(p, Done(Ev(Ev(Ev(loc[p], <<"raise", "update_leads">>),
                                  LogEv(ok, "SYSTEM")),
                               <<"return", "salvar_mensagem">>)))
            /\ messages' = SubSeq(messages, 1, Len(messages) - 1)
            /\ UNCHANGED <<leads, clock>>
       \/ /\ leads' = UpdateLead(leads, loc[p].lead_id, loc[p].text, clock + 1)
          /\ clock' = clock + 1
          /\ Goto(p, Done(Ev(Ev(loc[p], <<"update", "leads">>),
                             <<"return", "salvar_mensagem">>)))
          /\ UNCHANGED <<system_logs, messages>>
    /\ UNCHANGED <<config, nreq>>

\* salvar_mensagem, lines 117-121: the update of the lead's summary.
salvar_mensagem_update(p) ==
    /\ pc[p] = "s_update"
    /\ Quiet(p)
    /\ \/ \E ok \in BOOLEAN :
            /\ system_logs' = log_system_event(ok, "ERROR", "SYSTEM",
                                               "Falha ao salvar mensagem")
            /\ Goto(p, Done(Ev(Ev(Ev(loc[p], <<"raise", "update_leads">>),
                                  LogEv(ok, "SYSTEM")),
                               <<"return", "salvar_mensagem">>)))
            /\ UNCHANGED <<leads, clock>>
       \/ /\ leads' = UpdateLead(leads, loc[p].lead_id, loc[p].text, clock + 1)
          /\ clock' = clock + 1
          /\ Goto(p, Done(Ev(Ev(loc[p], <<"update", "leads">>),
                             <<"return", "salvar_mensagem">>)))
          /\ UNCHANGED system_logs
    /\ UNCHANGED <<config, messages, nreq>>

\* POST /send_message with JSON body data (lines 180-188), up to the HTTP
\* call of enviar_mensagem_whatsapp (lines 38-42 included).
api_send_message(p, data) ==
    /\ pc[p] = "idle"
    /\ Quiet(p)
    /\ nreq < MaxReqs
    /\ nreq' = nreq + 1
    /\ LET l0 == [IdleLoc EXCEPT !.kind = "send", !.phone = data.phone,
                                 !.text = data.text, !.lead_id = data.lead_id]
           l1 == Ev(l0, <<"call", "enviar_mensagem_whatsapp">>)
       IN  \/ /\ ~TruthyStr(data.phone) \/ ~TruthyStr(data.text)
              /\ Goto(p, [pc |-> "done", loc |-> [l0 EXCEPT !.status = 400]])
              /\ UNCHANGED system_logs
           \/ /\ TruthyStr(data.phone) /\ TruthyStr(data.text)
              /\ CredentialsMissing
              /\ \E ok \in BOOLEAN :
                    /\ system_logs' = log_system_event(ok, "ERROR", "API_SEND",
                                          "Credenciais da Meta nao configuradas")
                    /\ Goto(p, api_send_after_dispatch(
                                  Ev(l1, LogEv(ok, "API_SEND"))))
           \/ /\ TruthyStr(data.phone) /\ TruthyStr(data.text)
              /\ ~CredentialsMissing
              /\ Goto(p, [pc |-> "e_post", loc |-> l1])
              /\ UNCHANGED system_logs
    /\ UNCHANGED <<config, leads, messages, clock>>

\* The dispatcher repeating the HTTP POST once after a first failure.
enviar_mensagem_whatsapp_post_retry(p) ==
    /\ pc[p] = "e_post"
    /\ Quiet(p)
    /\ \/ /\ Goto(p, api_send_after_dispatch(Ev(loc[p], <<"net", "ok">>)))
          /\ UNCHANGED system_logs
       \/ /\ Count(loc[p].tr, <<"net", "fail">>) = 0
          /\ Goto(p, [pc |-> "e_post", loc |-> Ev(loc[p], <<"net", "fail">>)])
          /\ UNCHANGED system_logs
       \/ /\ Count(loc[p].tr, <<"net", "fail">>) > 0
          /\ \E ok \in BOOLEAN :
                /\ system_logs' = log_system_event(ok, "ERROR", "API_SEND",
                                                   "Erro ao enviar no WhatsApp")
                /\ Goto(p, api_send_after_dispatch(
                              Ev(Ev(loc[p], <<"net", "fail">>),
                                 LogEv(ok, "API_SEND"))))
    /\ UNCHANGED <<config, leads, messages, clock, nreq>>

\* enviar_mensagem_whatsapp, lines 56-63: the HTTP POST to the Graph API.
enviar_mensagem_whatsapp_post(p) ==
    /\ pc[p] = "e_post"
    /\ Quiet(p)
    /\ \/ /\ Goto(p, api_send_after_dispatch(Ev(loc[p], <<"net", "ok">>)))
          /\ UNCHANGED system_logs
       \/ \E ok \in BOOLEAN :
            /\ system_logs' = log_system_event(ok, "ERROR", "API_SEND",
                                               "Erro ao enviar no WhatsApp")
            /\ Goto(p, api_send_after_dispatch(
                          Ev(Ev(loc[p], <<"net", "fail">>),
                             LogEv(ok, "API_SEND"))))
    /\ UNCHANGED <<config, leads, messages, clock, nreq>>

\* The response has been sent; the thread takes the next request.  This
\* step touches only the thread's own locals, so it is taken before any
\* other thread moves (Quiet).
finish(p) ==
    /\ pc[p] = "done"
    /\ Quiet(p)
    /\ Goto(p, [pc |-> "idle", loc |-> IdleLoc])
    /\ UNCHANGED <<config, leads, messages, system_logs, clock, nreq>>

\* A direct call salvar_mensagem(lead_id, content, direction), as a caller
\* other than the two endpoints would make it.
salvar_mensagem_call(p, lead_id, content, direction) ==
    /\ pc[p] = "idle"
    /\ Quiet(p)
    /\ nreq < MaxReqs
    /\ nreq' = nreq + 1
    /\ Goto(p, salvar_mensagem_enter([IdleLoc EXCEPT !.kind = "call"],
                                     lead_id, content, direction))
    /\ UNCHANGED <<config, leads, messages, system_logs, clock>>

Next ==
    \E p \in Procs :
        \/ \E data \in Payloads : webhook(p, data)
        \/ get_or_create_lead_select(p)
        \/ get_or_create_lead_stage(p)
        \/ get_or_create_lead_insert(p)
        \/ salvar_mensagem_insert(p)
        \/ salvar_mensagem_update(p)
        \/ \E data \in SendBodies : api_send_message(p, data)
        \/ enviar_mensagem_whatsapp_post(p)
        \/ finish(p)

Spec == Init /\ [][Next]_vars

\* The endpoints together with direct calls of salvar_mensagem.
NextCalls ==
    \/ Next
    \/ \E p \in Procs, lead_id \in {NoId, 0, 1},
          direction \in {"inbound", "outbound"} :
            salvar_mensagem_call(p, lead_id, "oi", direction)

SpecCalls == Init /\ [][NextCalls]_vars

\* Requests handled one at a time: a thread moves only while every other
\* thread is idle.
Alone(p) == \A q \in Procs \ {p} : pc[q] = "idle"

NextSeq ==
    \E p \in Procs :
        \/ Alone(p) /\ \E data \in Payloads : webhook(p, data)
        \/ Alone(p) /\ get_or_create_lead_select(p)
        \/ Alone(p) /\ get_or_create_lead_stage(p)
        \/ Alone(p) /\ get_or_create_lead_insert(p)
        \/ Alone(p) /\ salvar_mensagem_insert(p)
        \/ Alone(p) /\ salvar_mensagem_update(p)
        \/ Alone(p) /\ \E data \in SendBodies : api_send_message(p, data)
        \/ Alone(p) /\ enviar_mensagem_whatsapp_post(p)
        \/ Alone(p) /\ finish(p)

SpecSeq == Init /\ [][NextSeq]_vars

\* The steps of a request already started in thread p: the external calls
\* it is waiting on and its answer.
Step(p) ==
    \/ get_or_create_lead_select(p)
    \/ get_or_create_lead_stage(p)
    \/ get_or_create_lead_insert(p)
    \/ salvar_mensagem_insert(p)
    \/ salvar_mensagem_update(p)
    \/ enviar_mensagem_whatsapp_post(p)
    \/ finish(p)

\* Every external call returns or raises (bounded blocking) and every
\* handler thread is scheduled: a started request keeps taking its steps.
\* No request is required ever to arrive.
SpecFair == Spec /\ \A p \in Procs : WF_vars(Step(p))

(* ------------------------ vocabulary of the claims --------------------- *)

\* The rows of leads with the given phone.
RowsWithPhone(ph) == {i \in 1..Len(leads) : leads[i].phone = ph}

\* A store call of get_or_create_lead raised in the request with trace t.
GocRaised(t) ==
    \E i \in 1..Len(t) :
        t[i] \in {<<"raise", "select_leads">>, <<"raise", "select_stages">>,
                  <<"raise", "insert_leads">>}

\* get_or_create_lead has returned in the request with trace t.
GocReturned(t) == Count(t, <<"return", "get_or_create_lead">>) = 1

\* Thread p is handling a text event, its get_or_create_lead has returned
\* and none of its store calls raised.
LeadResolved(p) ==
    /\ loc[p].kind = "webhook"
    /\ GocReturned(loc[p].tr)
    /\ ~GocRaised(loc[p].tr)

\* The stages of minimum position.
MinStages == {s \in pipeline_stages :
                 \A t \in pipeline_stages : s.position <= t.position}

(* ------------------------------- claims -------------------------------- *)

\* C1: in every reachable state no two rows of leads share a phone.
C1_OneLeadPerPhone ==
    \A i, j \in 1..Len(leads) : leads[i].phone = leads[j].phone => i = j

\* C2: handled without overlap (SpecSeq), a text event from a phone that no
\* lead has (the lookup missed), with a stage in the store and no store
\* error, makes get_or_create_lead insert exactly one lead and return it:
\* the row has the given phone and name, the stage of minimum position,
\* unread_count 1 and empty custom_fields, and it is the only row with that
\* phone.
C2_CreatesOneLead ==
    \A p \in Procs :
        (/\ LeadResolved(p)
         /\ Count(loc[p].tr, <<"select", "miss">>) = 1
         /\ pipeline_stages # {})
        => /\ loc[p].lead # NoLead
           /\ Count(loc[p].tr, <<"insert", "leads">>) = 1
           /\ loc[p].lead.phone = loc[p].phone
           /\ loc[p].lead.name = loc[p].name
           /\ \E s \in MinStages : loc[p].lead.stage_id = s.id
           /\ loc[p].lead.unread_count = 1
           /\ loc[p].lead.custom_fields = <<>>
           /\ RowsWithPhone(loc[p].phone) = {loc[p].lead.id}
           /\ (pc[p] = "s_insert" => leads[loc[p].lead.id] = loc[p].lead)

\* C2 witness: a sequential first-contact event has just created its lead.
C2_Witness ==
    \E p \in Procs :
        /\ pc[p] = "s_insert"
        /\ LeadResolved(p)
        /\ Count(loc[p].tr, <<"select", "miss">>) = 1
        /\ loc[p].lead # NoLead
        /\ loc[p].name = "Bob"
        /\ Len(leads) = 2

\* C3: two text events from the same phone, unseen by at least one of the
\* lookups, both resolved without store error and with a stage present:
\* each get_or_create_lead returned a stored lead with that phone, and the
\* store holds one or two rows with that phone, never none nor more.
C3_RaceOneOrTwo ==
    \A p, q \in Procs :
        (/\ p # q
         /\ LeadResolved(p) /\ LeadResolved(q)
         /\ loc[p].phone = loc[q].phone
         /\ Count(loc[p].tr, <<"select", "miss">>) = 1
         /\ pipeline_stages # {})
        => /\ loc[p].lead # NoLead /\ loc[q].lead # NoLead
           /\ loc[p].lead.phone = loc[p].phone
           /\ loc[q].lead.phone = loc[p].phone
           /\ {loc[p].lead.id, loc[q].lead.id} \subseteq RowsWithPhone(loc[p].phone)
           /\ Cardinality(RowsWithPhone(loc[p].phone)) \in {1, 2}

\* C3 witness: both lookups missed and each handler inserted its own lead.
C3_WitnessTwo ==
    \E p, q \in Procs :
        /\ p # q
        /\ LeadResolved(p) /\ LeadResolved(q)
        /\ loc[p].phone = loc[q].phone
        /\ Count(loc[p].tr, <<"select", "miss">>) = 1
        /\ Count(loc[q].tr, <<"select", "miss">>) = 1
        /\ loc[p].lead.id # loc[q].lead.id
        /\ Cardinality(RowsWithPhone(loc[p].phone)) = 2

\* C3, the other outcome: the second lookup ran after the first insert and
\* both handlers hold the one lead.
C3_WitnessOne ==
    \E p, q \in Procs :
        /\ p # q
        /\ LeadResolved(p) /\ LeadResolved(q)
        /\ loc[p].phone = loc[q].phone
        /\ Count(loc[p].tr, <<"select", "miss">>) = 1
        /\ Count(loc[q].tr, <<"select", "hit">>) = 1
        /\ loc[p].lead.id = loc[q].lead.id
        /\ Cardinality(RowsWithPhone(loc[p].phone)) = 1

\* C4 as stated: the lookup of a phone that has a lead returns a stored
\* lead with that phone and writes nothing at all.
C4_HitReturnsStoredLead ==
    [][\A p \in Procs :
        (/\ pc[p] = "g_select" /\ pc'[p] # "g_select"
         /\ RowsWithPhone(loc[p].phone) # {})
        => /\ \E i \in RowsWithPhone(loc[p].phone) : loc'[p].lead = leads[i]
           /\ leads' = leads
           /\ messages' = messages
           /\ system_logs' = system_logs]_vars

\* C4 amended: the lookup of a phone that has a lead never inserts or
\* changes a lead or a message, whatever name is passed; it returns a
\* stored lead with that phone and writes nothing, unless the lookup itself
\* raises, and then it returns None and writes at most one SYSTEM log row.
C4_HitIsReadOnly ==
    [][\A p \in Procs :
        (/\ pc[p] = "g_select" /\ pc'[p] # "g_select"
         /\ RowsWithPhone(loc[p].phone) # {})
        => /\ leads' = leads
           /\ messages' = messages
           /\ IF Count(loc'[p].tr, <<"raise", "select_leads">>) = 0
              THEN /\ \E i \in RowsWithPhone(loc[p].phone) :
                          loc'[p].lead = leads[i]
                   /\ system_logs' = system_logs
              ELSE /\ loc'[p].lead = NoLead
                   /\ \/ system_logs' = system_logs
                      \/ \E m \in {"Falha ao criar/buscar lead"} :
                            system_logs' = Append(system_logs,
                                [level |-> "ERROR", source |-> "SYSTEM",
                                 message |-> m])]_vars

\* C4 witness: a lookup found the lead of a phone while the event carried
\* another name than the stored one.
C4_Witness ==
    \E p \in Procs :
        /\ pc[p] = "s_insert"
        /\ Count(loc[p].tr, <<"select", "hit">>) = 1
        /\ loc[p].lead # NoLead
        /\ loc[p].lead.name # loc[p].name
        /\ leads[loc[p].lead.id].name = loc[p].lead.name

\* C5 as stated: once an inbound salvar_mensagem that inserted its message
\* for an existing lead has returned, the lead's last_message_content is
\* that content and last_message_at is refreshed.
C5_InboundSetsSummary ==
    [][\A p \in Procs :
        (/\ pc[p] = "s_update" /\ pc'[p] # "s_update"
         /\ loc[p].lead_id \in 1..Len(leads))
        => /\ leads'[loc[p].lead_id].last_message_content = loc[p].text
           /\ leads'[loc[p].lead_id].last_message_at
                 > leads[loc[p].lead_id].last_message_at]_vars

\* C5 amended: the inbound message row stays inserted; when the update of
\* the lead (line 118) does not raise, the call returns with the lead's
\* last_message_content equal to the content and last_message_at refreshed,
\* every other row being left alone; when it raises, no lead changes.
C5_InboundSetsSummaryUnlessRaise ==
    [][\A p \in Procs :
        (/\ pc[p] = "s_update" /\ pc'[p] # "s_update"
         /\ loc[p].lead_id \in 1..Len(leads))
        => /\ \E k \in 1..Len(messages') :
                 messages'[k] = [lead_id |-> loc[p].lead_id,
                                 content |-> loc[p].text,
                                 direction |-> "inbound", type |-> "text",
                                 status |-> "read"]
           /\ IF Count(loc'[p].tr, <<"raise", "update_leads">>) = 0
              THEN /\ leads'[loc[p].lead_id].last_message_content = loc[p].text
                   /\ leads'[loc[p].lead_id].last_message_at
                         > leads[loc[p].lead_id].last_message_at
                   /\ \A i \in 1..Len(leads) :
                         i # loc[p].lead_id => leads'[i] = leads[i]
              ELSE leads' = leads]_vars

\* C5 witness: a second inbound message of a lead has replaced the summary
\* left by the first.
C5_Witness ==
    \E p \in Procs :
        /\ pc[p] = "done"
        /\ loc[p].kind = "webhook"
        /\ Count(loc[p].tr, <<"update", "leads">>) = 1
        /\ Count(loc[p].tr, <<"select", "hit">>) = 1
        /\ leads[loc[p].lead_id].last_message_content = loc[p].text
        /\ leads[loc[p].lead_id].last_message_at = 2

\* The row salvar_mensagem inserts for an outbound message.
OutboundRow(lead_id, content) ==
    [lead_id |-> lead_id, content |-> content, direction |-> "outbound",
     type |-> "text", status |-> "sent"]

\* C6: an outbound salvar_mensagem, for every lead_id and content, changes
\* no lead (last_message_at and last_message_content included); entering it
\* writes nothing, and its one store call either raises or appends one
\* outbound message row, after which the call is over.
C6_OutboundLeavesLeads ==
    [][\A p \in Procs :
        /\ (loc[p].direction # "outbound" /\ loc'[p].direction = "outbound")
           => /\ leads' = leads
              /\ messages' = messages
        /\ (/\ loc[p].direction = "outbound"
            /\ pc[p] \in {"s_insert", "s_update"}
            /\ pc'[p] # pc[p])
           => /\ leads' = leads
              /\ clock' = clock
              /\ pc'[p] = "done"
              /\ \/ messages' = messages
                 \/ messages' = Append(messages,
                                       OutboundRow(loc[p].lead_id, loc[p].text))
       ]_vars

\* C6 witness: an outbound message was recorded for a lead whose summary
\* still shows its inbound message.
C6_Witness ==
    \E p \in Procs :
        /\ pc[p] = "done"
        /\ loc[p].direction = "outbound"
        /\ Count(loc[p].tr, <<"insert", "messages">>) = 1
        /\ loc[p].lead_id \in 1..Len(leads)
        /\ leads[loc[p].lead_id].last_message_content = "oi"
        /\ messages[Len(messages)] = OutboundRow(loc[p].lead_id, loc[p].text)

\* C7: a direct call salvar_mensagem(None, content, direction), for either
\* direction, returns at once: no message row, no lead update, no log
\* entry, no exception.
C7_NullLeadIsNoOp ==
    [][\A p \in Procs :
        (/\ pc[p] = "idle"
         /\ loc'[p].kind = "call"
         /\ loc'[p].lead_id = NoId)
        => /\ pc'[p] = "done"
           /\ loc'[p].tr = << <<"call", "salvar_mensagem">>,
                              <<"return", "salvar_mensagem">> >>
           /\ leads' = leads
           /\ messages' = messages
           /\ system_logs' = system_logs]_vars

\* C7 witness: salvar_mensagem(None, ..., 'inbound') has returned while the
\* store is configured and holds a lead.
C7_Witness ==
    \E p \in Procs :
        /\ pc[p] = "done"
        /\ loc[p].kind = "call"
        /\ loc[p].lead_id = NoId
        /\ loc[p].direction = "inbound"
        /\ supabase
        /\ Len(leads) = 1

\* C8 as stated: an accepted send request invokes the dispatcher first and
\* records exactly one outbound 'sent' message if and only if a lead
\* identifier (read here as a truthy one) was supplied, whatever the
\* dispatch did.
C8_SendRecordsIffLeadId ==
    \A p \in Procs :
        (pc[p] = "done" /\ loc[p].kind = "send" /\ loc[p].status = 200)
        => /\ loc[p].tr[1] = <<"call", "enviar_mensagem_whatsapp">>
           /\ (TruthyId(loc[p].lead_id)
                 <=> Count(loc[p].tr, <<"insert", "messages">>) = 1)

\* C8 amended: an accepted send request invokes the dispatcher first and
\* unconditionally; after it returns, salvar_mensagem is called with
\* direction outbound if and only if a truthy lead identifier was supplied,
\* whatever the dispatch did; that call records one outbound 'sent' message
\* when the store is configured and the insert does not raise, and none
\* otherwise.
C8_SendCallsRecorderIffLeadId ==
    \A p \in Procs :
        (pc[p] = "done" /\ loc[p].kind = "send" /\ loc[p].status = 200)
        => LET t == loc[p].tr
           IN  /\ t[1] = <<"call", "enviar_mensagem_whatsapp">>
               /\ Count(t, <<"return", "enviar_mensagem_whatsapp">>) = 1
               /\ (TruthyId(loc[p].lead_id)
                     <=> Count(t, <<"call", "salvar_mensagem">>) = 1)
               /\ \A i, j \in 1..Len(t) :
                     (/\ t[i] = <<"return", "enviar_mensagem_whatsapp">>
                      /\ t[j] = <<"call", "salvar_mensagem">>) => i < j
               /\ loc[p].direction = IF TruthyId(loc[p].lead_id)
                                     THEN "outbound" ELSE "none"
               /\ Count(t, <<"insert", "messages">>) <= 1
               /\ (Count(t, <<"insert", "messages">>) = 1
                     <=> /\ TruthyId(loc[p].lead_id)
                         /\ supabase
                         /\ Count(t, <<"raise", "insert_messages">>) = 0)
               /\ Count(t, <<"insert", "messages">>) = 1
                     => messages[Len(messages)]
                           = OutboundRow(loc[p].lead_id, loc[p].text)

\* C8 witness: the HTTP call failed and the message was recorded as sent.
C8_Witness ==
    \E p \in Procs :
        /\ pc[p] = "done" /\ loc[p].kind = "send" /\ loc[p].status = 200
        /\ Count(loc[p].tr, <<"net", "fail">>) = 1
        /\ Count(loc[p].tr, <<"insert", "messages">>) = 1
        /\ messages[Len(messages)] = OutboundRow(1, "resp")

\* Thread p has answered a text event that found no pipeline stage, none
\* of the resolver's store calls having raised.
AnsweredWithoutStage(p) ==
    /\ pc[p] = "done"
    /\ loc[p].kind = "webhook"
    /\ loc[p].parsed = "text"
    /\ supabase
    /\ pipeline_stages = {}
    /\ ~GocRaised(loc[p].tr)

\* The last row of system_logs is an ERROR of the given source.
LastLogIs(source) ==
    /\ Len(system_logs) >= 1
    /\ system_logs[Len(system_logs)].level = "ERROR"
    /\ system_logs[Len(system_logs)].source = source

\* C9 as stated: without a pipeline stage, a text event from a phone that
\* has no lead makes get_or_create_lead return None and write exactly one
\* ERROR/SYSTEM log entry; the request creates no lead and no message.
C9_NoStageOneLogEntry ==
    \A p \in Procs :
        AnsweredWithoutStage(p)
        => /\ loc[p].lead = NoLead
           /\ Count(loc[p].tr, <<"log", "SYSTEM">>) = 1
           /\ LastLogIs("SYSTEM")
           /\ CountKind(loc[p].tr, "insert") = 0
           /\ leads = <<>>
           /\ \A k \in 1..Len(messages) : messages[k].direction # "inbound"

\* C9 amended: ... get_or_create_lead returns None and calls
\* log_system_event exactly once, with ERROR and SYSTEM; that call writes
\* exactly one log entry when its insert succeeds and none when the insert
\* raises (swallowed); either way the request creates no lead and no
\* message.
C9_NoStageOneLogCall ==
    \A p \in Procs :
        AnsweredWithoutStage(p)
        => /\ loc[p].lead = NoLead
           /\ Count(loc[p].tr, <<"select", "nostage">>) = 1
           /\ CountKind(loc[p].tr, "log") + CountKind(loc[p].tr, "logfail") = 1
           /\ \/ Count(loc[p].tr, <<"log", "SYSTEM">>) = 1 /\ LastLogIs("SYSTEM")
              \/ Count(loc[p].tr, <<"logfail", "SYSTEM">>) = 1
           /\ CountKind(loc[p].tr, "insert") = 0
           /\ leads = <<>>
           /\ \A k \in 1..Len(messages) : messages[k].direction # "inbound"

\* C9 witness: the event was answered after the one SYSTEM entry was written.
C9_Witness ==
    \E p \in Procs :
        /\ AnsweredWithoutStage(p)
        /\ Count(loc[p].tr, <<"log", "SYSTEM">>) = 1
        /\ system_logs = << [level |-> "ERROR", source |-> "SYSTEM",
                             message |-> "Nenhuma etapa de funil"] >>

\* enviar_mensagem_whatsapp has returned in thread p's send request and a
\* credential is missing.
ReturnedWithoutCredentials(p) ==
    /\ loc[p].kind = "send"
    /\ Count(loc[p].tr, <<"return", "enviar_mensagem_whatsapp">>) = 1
    /\ (~META_TOKEN \/ ~META_PHONE_ID)

\* system_logs holds the entry of line 41.
HasCredentialsEntry ==
    \E k \in 1..Len(system_logs) :
        system_logs[k] = [level |-> "ERROR", source |-> "API_SEND",
                          message |-> "Credenciais da Meta nao configuradas"]

C11_WebhookAlwaysAnswers200 ==
    /\ [](\A p \in Procs :
             loc[p].kind = "webhook"
             => loc[p].status = IF pc[p] = "done" THEN 200 ELSE 0)
    /\ \A p \in Procs :
          (loc[p].kind = "webhook")
             ~> (pc[p] = "done" /\ loc[p].kind = "webhook"
                   /\ loc[p].status = 200)

\* C11 witness: a malformed envelope raised in the handler, the log write
\* of the except clause failed too, and the answer is 200.
C11_Witness ==
    \E p \in Procs :
        /\ pc[p] = "done"
        /\ loc[p].kind = "webhook"
        /\ loc[p].status = 200
        /\ Count(loc[p].tr, <<"raise", "webhook">>) = 1
        /\ Count(loc[p].tr, <<"logfail", "WEBHOOK_META">>) = 1

\* C12: an inbound message recorded for a lead that existed before the
\* event (the lookup hit, the message was inserted, the update of line 118
\* did not raise) changes three fields of that lead: last_message_at,
\* last_message_content and unread_count, the counter after the message
\* differing from the counter before it.
C12_InboundMutatesThreeFields ==
    [][\A p \in Procs :
        (/\ pc[p] = "s_update" /\ pc'[p] # "s_update"
         /\ Count(loc[p].tr, <<"select", "hit">>) = 1
         /\ Count(loc'[p].tr, <<"raise", "update_leads">>) = 0
         /\ loc[p].lead_id \in 1..Len(leads))
        => /\ leads'[loc[p].lead_id].last_message_at
                 # leads[loc[p].lead_id].last_message_at
           /\ leads'[loc[p].lead_id].last_message_content = loc[p].text
           /\ leads'[loc[p].lead_id].unread_count
                 # leads[loc[p].lead_id].unread_count]_vars

\* C13: in every reachable state the lead_id of every row of messages is
\* the id of a row of leads, after any sequence of webhook events and send
\* requests, whatever lead_id the send requests carry.
C13_MessagesReferenceLeads ==
    \A k \in 1..Len(messages) :
        \E i \in 1..Len(leads) : leads[i].id = messages[k].lead_id

\* Events the handler has nothing to do for: a message of another type, a
\* status callback without 'messages', an envelope without 'object'.
SkippedPayloads ==
    {Envelope(ValueAnon([type |-> "image", from |-> "+1"])),
     Envelope([statuses |-> <<"delivered">>]),
     [entry |-> <<>>]}

\* Envelopes with a missing field or an empty list where the handler
\* subscripts: empty 'entry', no 'type', no 'from', no 'text', empty
\* 'contacts', empty 'messages'.
MalformedPayloads == OtherPayloads \ SkippedPayloads

\* The entry the except clause of line 174 writes.
WebhookLogRow ==
    [level |-> "ERROR", source |-> "WEBHOOK_META",
     message |-> "Falha no processamento"]

\* C14 as stated: an event of another type, or one with malformed or
\* missing fields, creates no lead and no message and writes no log entry.
C14_MalformedWritesNothing ==
    [][\A p \in Procs : \A data \in OtherPayloads :
        webhook(p, data)
        => /\ leads' = leads
           /\ messages' = messages
           /\ system_logs' = system_logs]_vars

\* C14 amended: such an event creates no lead and no message and is
\* answered 200 at once.  A message of another type, a status callback or
\* an envelope without 'object' writes no log entry.  A missing 'type',
\* 'from' or text, or an empty entry, contacts or messages list raises in
\* the handler, which calls log_system_event once with source
\* WEBHOOK_META: one entry is written when the store is configured and the
\* log insert succeeds, none otherwise.
C14_MalformedLoggedSkippedSilent ==
    [][\A p \in Procs : \A data \in OtherPayloads :
        webhook(p, data)
        => /\ leads' = leads
           /\ messages' = messages
           /\ pc'[p] = "done"
           /\ loc'[p].status = 200
           /\ data \in SkippedPayloads
                 => /\ system_logs' = system_logs
                    /\ loc'[p].tr = <<>>
           /\ data \in MalformedPayloads
                 => /\ Len(loc'[p].tr) = 2
                    /\ loc'[p].tr[1] = <<"raise", "webhook">>
                    /\ loc'[p].tr[2][2] = "WEBHOOK_META"
                    /\ IF loc'[p].tr[2][1] = "log"
                       THEN supabase
                            /\ system_logs' = Append(system_logs, WebhookLogRow)
                       ELSE system_logs' = system_logs
                    /\ ~supabase => loc'[p].tr[2][1] = "logskip"]_vars

\* C14 witness: a malformed envelope was answered and left one
\* WEBHOOK_META entry, the only row of the whole store.
C14_Witness ==
    \E p \in Procs :
        /\ pc[p] = "done"
        /\ loc[p].kind = "webhook"
        /\ loc[p].parsed = "error"
        /\ loc[p].tr = << <<"raise", "webhook">>, <<"log", "WEBHOOK_META">> >>
        /\ system_logs = <<WebhookLogRow>>
        /\ leads = <<>> /\ messages = <<>>

\* The events a step appended to a request's trace: new minus old.
NewEvents(old, new) == {i \in 1..Len(new) : i > Len(old)}

\* The trace new with the outcome of the log writes of the last step
\* exchanged: written for failed and failed for written.
FlipLog(old, new) ==
    [i \in 1..Len(new) |->
        IF i > Len(old) /\ new[i][1] = "log" THEN <<"logfail", new[i][2]>>
        ELSE IF i > Len(old) /\ new[i][1] = "logfail" THEN <<"log", new[i][2]>>
        ELSE new[i]]

\* C15: log_system_event never raises to its caller, and what the primary
\* operation does is independent of the log write: for every step that
\* calls log_system_event with the store configured, the same state has a
\* step with the other outcome of the log insert that writes the same
\* leads and messages, returns the same values and continues at the same
\* place (same locals, same answer); the two differ in system_logs only,
\* which gets one row when the insert succeeds and none when it fails.
C15_LogOutcomeIndependent ==
    [][\A p \in Procs :
        LET old == loc[p].tr
            new == loc'[p].tr
        IN  (\E i \in NewEvents(old, new) : new[i][1] \in {"log", "logfail"})
            => /\ \A i, j \in NewEvents(old, new) :
                     (new[i][1] \in {"log", "logfail"} /\ j > i)
                     => new[j][1] # "raise"
               /\ loc'[p].status \in {0, 200}
               /\ \A i \in NewEvents(old, new) :
                     /\ new[i][1] = "log"
                           => Len(system_logs') = Len(system_logs) + 1
                     /\ new[i][1] = "logfail" => system_logs' = system_logs
               /\ \E L \in {leads'}, M \in {messages'}, P \in {pc'},
                     C \in {clock'}, N \in {nreq'}, S \in {system_logs'},
                     T \in {[loc' EXCEPT ![p].tr = FlipLog(old, new)]} :
                       ENABLED (/\ Next
                                /\ leads' = L /\ messages' = M /\ pc' = P
                                /\ clock' = C /\ nreq' = N /\ loc' = T
                                /\ system_logs' # S)]_vars

\* C15 witness: a send request without credentials whose API_SEND log
\* write failed went on to record its message.
C15_Witness ==
    \E p \in Procs :
        /\ pc[p] = "done"
        /\ loc[p].kind = "send"
        /\ loc[p].status = 200
        /\ Count(loc[p].tr, <<"logfail", "API_SEND">>) = 1
        /\ Count(loc[p].tr, <<"insert", "messages">>) = 1
        /\ system_logs = <<>>

\* enviar_mensagem_whatsapp has returned in thread p's send request.
DispatcherReturned(p) ==
    /\ loc[p].kind = "send"
    /\ Count(loc[p].tr, <<"return", "enviar_mensagem_whatsapp">>) = 1

\* Calls of log_system_event with source API_SEND in trace t, whatever
\* became of the write.
LogCallsApiSend(t) ==
    Count(t, <<"log", "API_SEND">>) + Count(t, <<"logfail", "API_SEND">>)
       + Count(t, <<"logskip", "API_SEND">>)

\* system_logs holds the entry of line 63.
HasDeliveryEntry ==
    \E k \in 1..Len(system_logs) :
        system_logs[k] = [level |-> "ERROR", source |-> "API_SEND",
                          message |-> "Erro ao enviar no WhatsApp"]

\* C16 as stated: every invocation of enviar_mensagem_whatsapp makes
\* exactly one network call, writes exactly one API_SEND log entry when
\* the call fails and no log entry when it succeeds.
C16_OneCallOneEntryOnFailure ==
    \A p \in Procs :
        DispatcherReturned(p)
        => LET t == loc[p].tr
           IN  /\ CountKind(t, "net") = 1
               /\ Count(t, <<"net", "fail">>) = 1
                     => Count(t, <<"log", "API_SEND">>) = 1 /\ HasDeliveryEntry
               /\ Count(t, <<"net", "ok">>) = 1 => LogCallsApiSend(t) = 0

\* C16 amended: an invocation makes exactly one network call when both
\* credentials are set and none when one is missing, and never a second
\* one; when the call fails it calls log_system_event once with source
\* API_SEND, which writes one entry when the store is configured and the
\* log insert succeeds and none otherwise; when the call succeeds it makes
\* no log call.
C16_AtMostOneCallOneLogCallOnFailure ==
    \A p \in Procs :
        DispatcherReturned(p)
        => LET t == loc[p].tr
           IN  /\ CountKind(t, "net") <= 1
               /\ (CountKind(t, "net") = 1 <=> (META_TOKEN /\ META_PHONE_ID))
               /\ LogCallsApiSend(t) <= 1
               /\ Count(t, <<"net", "fail">>) = 1
                     => /\ LogCallsApiSend(t) = 1
                        /\ Count(t, <<"log", "API_SEND">>) = 1
                              => supabase /\ HasDeliveryEntry
                        /\ ~supabase => Count(t, <<"logskip", "API_SEND">>) = 1
               /\ Count(t, <<"net", "ok">>) = 1 => LogCallsApiSend(t) = 0

\* C16 witness: the one HTTP call failed, its API_SEND entry was written
\* and the dispatcher has returned.
C16_Witness ==
    \E p \in Procs :
        /\ DispatcherReturned(p)
        /\ META_TOKEN /\ META_PHONE_ID
        /\ loc[p].tr[2] = <<"net", "fail">>
        /\ loc[p].tr[3] = <<"log", "API_SEND">>
        /\ CountKind(loc[p].tr, "net") = 1
        /\ HasDeliveryEntry

\* Row m has type 'text' and the status of its direction.
WellFormedMessage(m) ==
    /\ m.type = "text"
    /\ m.direction \in {"inbound", "outbound"}
    /\ (m.status = "read" <=> m.direction = "inbound")
    /\ (m.status = "sent" <=> m.direction = "outbound")

\* C17: in every reachable state every row of messages has type 'text',
\* status 'read' iff its direction is inbound and 'sent' iff it is
\* outbound; rows are only ever appended, an inbound row only by a thread
\* handling POST /webhook (with the text of the event) and an outbound
\* row only by a thread handling POST /send_message.
C17_StatusByDirection ==
    /\ [](\A k \in 1..Len(messages) : WellFormedMessage(messages[k]))
    /\ [][messages' # messages
            => \E p \in Procs :
                  /\ pc[p] = "s_insert"
                  /\ Len(messages') = Len(messages) + 1
                  /\ \A k \in 1..Len(messages) : messages'[k] = messages[k]
                  /\ LET m == messages'[Len(messages')]
                     IN  /\ WellFormedMessage(m)
                         /\ m.content = loc[p].text
                         /\ m.lead_id = loc[p].lead_id
                         /\ m.direction = "inbound" <=> loc[p].kind = "webhook"
                         /\ m.direction = "outbound" <=> loc[p].kind = "send"
       ]_vars

\* C17 witness: the table holds an inbound 'read' row followed by an
\* outbound 'sent' row of the same lead.
C17_Witness ==
    /\ Len(messages) = 2
    /\ messages[1] = [lead_id |-> 1, content |-> "oi", direction |-> "inbound",
                      type |-> "text", status |-> "read"]
    /\ messages[2] = [lead_id |-> 1, content |-> "resp",
                      direction |-> "outbound", type |-> "text",
                      status |-> "sent"]

\* The row an inbound salvar_mensagem of thread p inserts.
InboundRow(p) ==
    [lead_id |-> loc[p].lead_id, content |-> loc[p].text,
     direction |-> "inbound", type |-> "text", status |-> "read"]

\* The entry the except clause of line 126 writes.
RecorderLogRow ==
    [level |-> "ERROR", source |-> "SYSTEM",
     message |-> "Falha ao salvar mensagem"]

\* The message insert precedes the lead update: a thread about to update
\* (or stopped there) has its row in the table and has updated nothing.
InsertBeforeUpdate ==
    \A p \in Procs :
        /\ pc[p] = "s_update"
              => /\ \E k \in 1..Len(messages) : messages[k] = InboundRow(p)
                 /\ Count(loc[p].tr, <<"insert", "messages">>) = 1
                 /\ Count(loc[p].tr, <<"update", "leads">>) = 0
        /\ Count(loc[p].tr, <<"update", "leads">>) = 1
              => Count(loc[p].tr, <<"insert", "messages">>) = 1
        /\ Count(loc[p].tr, <<"raise", "insert_messages">>) = 1
              => /\ Count(loc[p].tr, <<"update", "leads">>) = 0
                 /\ Count(loc[p].tr, <<"raise", "update_leads">>) = 0
                 /\ pc[p] = "done"

\* No step removes or changes a row of messages.
NoRollback ==
    /\ Len(messages') >= Len(messages)
    /\ \A k \in 1..Len(messages) : messages'[k] = messages[k]

\* Thread p's lead update raises in this step.
UpdateRaises(p) ==
    /\ pc[p] = "s_update"
    /\ Count(loc'[p].tr, <<"raise", "update_leads">>) = 1

\* C18 as stated: in an inbound salvar_mensagem the insert precedes the
\* update and is never rolled back; when the update fails, or the thread
\* stops between the two, the message stays and no lead changes; a failed
\* update writes one SYSTEM entry and the caller gets no error; a failed
\* insert is never followed by the update.
C18_InsertThenUpdateOneEntry ==
    /\ []InsertBeforeUpdate
    /\ [][NoRollback]_vars
    /\ [][\A p \in Procs :
            UpdateRaises(p)
            => /\ leads' = leads
               /\ pc'[p] = "done" /\ loc'[p].status = 200
               /\ system_logs' = Append(system_logs, RecorderLogRow)]_vars

\* C18 amended: the same, the failed update calling log_system_event once
\* with ERROR and SYSTEM: one entry is written when the log insert
\* succeeds and none when it raises (swallowed).
C18_InsertThenUpdateOneLogCall ==
    /\ []InsertBeforeUpdate
    /\ [][NoRollback]_vars
    /\ [][\A p \in Procs :
            UpdateRaises(p)
            => /\ leads' = leads
               /\ messages' = messages
               /\ pc'[p] = "done" /\ loc'[p].status = 200
               /\ CountKind(loc'[p].tr, "log")
                     + CountKind(loc'[p].tr, "logfail")
                     = CountKind(loc[p].tr, "log")
                         + CountKind(loc[p].tr, "logfail") + 1
               /\ \/ /\ loc'[p].tr[Len(loc[p].tr) + 2] = <<"log", "SYSTEM">>
                     /\ system_logs' = Append(system_logs, RecorderLogRow)
                  \/ /\ loc'[p].tr[Len(loc[p].tr) + 2] = <<"logfail", "SYSTEM">>
                     /\ system_logs' = system_logs]_vars

\* C18 witness: the update of a new lead raised: the handler has answered,
\* the inbound row is stored, the lead's summary is still unset and the
\* SYSTEM entry is written.
C18_Witness ==
    \E p \in Procs :
        /\ pc[p] = "done"
        /\ loc[p].status = 200
        /\ Count(loc[p].tr, <<"insert", "messages">>) = 1
        /\ Count(loc[p].tr, <<"raise", "update_leads">>) = 1
        /\ messages = <<InboundRow(p)>>
        /\ leads[loc[p].lead_id].last_message_content = None
        /\ leads[loc[p].lead_id].last_message_at = 0
        /\ system_logs = <<RecorderLogRow>>

\* C19: in every reachable state, under every interleaving, each lead's
\* last_message_content is unset or is the content of an inbound row of
\* messages with that lead's id; it is never taken from an outbound
\* message or from a message of another lead.
C19_SummaryFromOwnInbound ==
    \A i \in 1..Len(leads) :
        \/ leads[i].last_message_content = None
        \/ \E k \in 1..Len(messages) :
              /\ messages[k].lead_id = leads[i].id
              /\ messages[k].direction = "inbound"
              /\ messages[k].content = leads[i].last_message_content

\* C19 witness: two leads, each with the summary of its own inbound
\* message and not of the other's.
C19_Witness ==
    /\ Len(leads) = 2
    /\ leads[1].phone # leads[2].phone
    /\ leads[1].last_message_content # None
    /\ leads[2].last_message_content # None
    /\ leads[1].last_message_content # leads[2].last_message_content
    /\ Len(messages) = 2

\* The inbound rows of messages recorded for the lead with the given id.
InboundOf(id) ==
    {k \in 1..Len(messages) :
        messages[k].lead_id = id /\ messages[k].direction = "inbound"}

\* Every handler has finished and every inbound row was followed by its
\* lead update: no update is pending and none raised.
AllRecorded ==
    /\ \A p \in Procs : pc[p] \in {"idle", "done"}
    /\ clock = Cardinality({k \in 1..Len(messages) :
                                messages[k].direction = "inbound"})

\* C20: once all handlers of inbound text events for a lead, concurrent
\* ones included, have finished without store error, the lead's
\* last_message_content is the content of the inbound row inserted last
\* for that lead.
C20_SummaryIsNewestInbound ==
    AllRecorded
    => \A i \in 1..Len(leads) :
          InboundOf(leads[i].id) # {}
          => \E k \in InboundOf(leads[i].id) :
                /\ \A j \in InboundOf(leads[i].id) : j <= k
                /\ leads[i].last_message_content = messages[k].content

=============================================================================
